---- MODULE Spec2Model ----
(***************************************************************************)
(* The schedule builder of spa-app.js (BaseScheduleBuilder and its two     *)
(* instances) and of script.js (ScheduleBuilder): the cyclic mapping of    *)
(* calendar dates onto a shift pattern, the asynchronous generation of a   *)
(* schedule (loader, pattern fetch, rendering) and the SPARouter with the  *)
(* session history of the browser.                                         *)
(*                                                                         *)
(* Three specifications run the same handlers from different pages: Spec   *)
(* is a page load with any date range in the URL, SpecApp a page whose     *)
(* user submits the date form while fetches are in flight, SpecRouter the  *)
(* page with its router, dock navigation and back/forward.                 *)
(*                                                                         *)
(* Time.  A Date value is an instant, counted here in whole hours.  Hour 0 *)
(* is 00:00 UTC of the calendar day of the builder's base date (15 May     *)
(* 2024 for the Current schedule, 1 October 2024 for Q4), and calendar     *)
(* days are numbered from that day: day 0 is the base date, day -1 the day *)
(* before it.  A date-only string "YYYY-MM-DD" is modelled by the one-     *)
(* element sequence <<day>>, the empty string by << >>.                    *)
(*                                                                         *)
(* The runtime's time zone is part of the environment: new Date(y, m, d)   *)
(* and setDate() work in local time, new Date("YYYY-MM-DD") parses as UTC  *)
(* and toLocaleString(.., {timeZone: "Asia/Jakarta"}) formats in UTC+7.    *)
(* A zone has an offset before and after one transition instant; a zone    *)
(* without daylight saving has the same offset on both sides.  The         *)
(* transition is placed inside the modelled window of days: what the code  *)
(* does at a transition does not depend on its calendar date.              *)
(***************************************************************************)
EXTENDS Integers, Sequences, FiniteSets, TLC

VARIABLES zone, builder, served, pc, pending, loader, rendered, label,
          router, history, observed, completed, ignored

vars == <<zone, builder, served, pc, pending, loader, rendered, label,
          router, history, observed, completed, ignored>>

-----------------------------------------------------------------------------
(* Bounds of the model *)

\* longest cycle pattern served
MaxLen == 3
\* date inputs range over the days -MaxDay .. MaxDay around the base date
MaxDay == 3
\* shift groups that every cycle day of the pattern data defines
NumGroups == 3
\* generateSchedule calls of one page that get past their first line
MaxCalls == 2
\* entries of the session history
MaxHistory == 3

-----------------------------------------------------------------------------
(* Values of the program *)

HoursPerDay == 24

\* the UTC offset of timeZone: "Asia/Jakarta"
JakartaOffset == 7

\* the "" of an empty date field
EmptyString == << >>

DateString(day) == <<day>>

\* NaN, the result of x % 0
NaN == -1000000

\* the 7 members of the team
People == <<"Adi", "Budi", "Citra", "Dewi", "Eka", "Fajar", "Gita">>

Person(n) == People[(n % Len(People)) + 1]

\* one entry of the pattern file: shifts is an array of groups, off a group
CycleDay(i) ==
    [shifts |-> [g \in 1..NumGroups |-> <<Person(i + g - 1)>>],
     off |-> <<Person(i + NumGroups)>>]

\* null
Null == <<"null">>

\* a cycle day that is null in the pattern file
NullDay == [shifts |-> << >>, off |-> Null]

\* the pattern file with len cycle days
Pattern(len) == [i \in 1..len |-> CycleDay(i - 1)]

Patterns == {Pattern(len) : len \in 0..MaxLen}

\* the time zones a runtime may be in
Zones ==
    { [name |-> "Asia/Jakarta", before |-> 7, after |-> 7, transition |-> 0],
      [name |-> "UTC", before |-> 0, after |-> 0, transition |-> 0],
      [name |-> "America/Bogota", before |-> -5, after |-> -5, transition |-> 0],
      \* clocks go back one hour at 01:00 UTC of day 1
      [name |-> "Europe/London", before |-> 1, after |-> 0,
       transition |-> HoursPerDay + 1],
      \* clocks go back one hour at 06:00 UTC of day 1
      [name |-> "America/New_York", before |-> -4, after |-> -5,
       transition |-> HoursPerDay + 6],
      \* clocks go forward one hour at 01:00 UTC of day -1
      [name |-> "Atlantic/Azores", before |-> -1, after |-> 0,
       transition |-> 1 - HoursPerDay] }

-----------------------------------------------------------------------------
(* Date *)

Offset(z, t) == IF t < z.transition THEN z.before ELSE z.after

\* the local wall-clock time of instant t
LocalTime(z, t) == t + Offset(z, t)

\* the instant of a local wall-clock time: the earlier one when the local
\* time occurs twice, the offset before the transition when it is skipped
UTC(z, wall) ==
    IF wall - z.before < z.transition THEN wall - z.before
    ELSE IF wall - z.after >= z.transition THEN wall - z.after
    ELSE wall - z.before

\* new Date(year, monthIndex, day): local midnight of a calendar day
NewDateLocal(z, day) == UTC(z, day * HoursPerDay)

\* new Date("YYYY-MM-DD"): a date-only string is UTC midnight
NewDateParse(str) == str[1] * HoursPerDay

\* date.setDate(date.getDate() + 1): the same local time on the next local day
SetDateNextDay(z, t) == UTC(z, LocalTime(z, t) + HoursPerDay)

\* date.setDate(date.getDate() + n)
SetDateBy(z, t, n) == UTC(z, LocalTime(z, t) + n * HoursPerDay)

\* the default range starts DaysBefore days before today and ends DaysAfter
\* days after it
DaysBefore == 1
DaysAfter == 7

\* toISOString().split("T")[0]: the calendar day in UTC
ToISODate(t) == t \div HoursPerDay

\* toLocaleDateString('id-ID', options): the calendar day in local time
ToLocaleDateString(z, t) == LocalTime(z, t) \div HoursPerDay

\* toLocaleString("id", {..., timeZone: "Asia/Jakarta"}): the text names the
\* calendar day the instant falls on in Jakarta
ToLocaleString(t) == (t + JakartaOffset) \div HoursPerDay

-----------------------------------------------------------------------------
(* Number *)

\* a % b of JavaScript: the sign of the dividend, NaN for b = 0
JSRem(a, b) ==
    IF a = NaN \/ b = NaN \/ b = 0 THEN NaN
    ELSE IF a >= 0 THEN a % b
    ELSE -((-a) % b)

JSAdd(a, b) == IF a = NaN \/ b = NaN THEN NaN ELSE a + b

-----------------------------------------------------------------------------
(* BaseScheduleBuilder *)

\* the value of reading past the end of an array
Undefined == <<"undefined">>

\* the two instances: CurrentScheduleBuilder and Q4ScheduleBuilder
Configs ==
    { [name |-> "current", shiftCount |-> 3],
      [name |-> "q4", shiftCount |-> 2] }

\* constructor(config): baseDate is built in the local time of the runtime
NewBuilder(config, z) ==
    [name |-> config.name,
     shiftCount |-> config.shiftCount,
     baseDate |-> NewDateLocal(z, 0)]

\* DayOffset with the quotient truncated toward zero instead of floored
TruncDayOffset(currentDate, baseDate) ==
    IF currentDate >= baseDate
    THEN (currentDate - baseDate) \div HoursPerDay
    ELSE -((baseDate - currentDate) \div HoursPerDay)

\* Math.floor((currentDate - this.baseDate) / (1000 * 60 * 60 * 24))
DayOffset(currentDate, baseDate) == (currentDate - baseDate) \div HoursPerDay

\* DayOfCycle as the bare remainder dayOffset % cycleLength
NaiveDayOfCycle(dayOffset, cycleLength) == JSRem(dayOffset, cycleLength)

\* ((dayOffset % cycleLength) + cycleLength) % cycleLength
DayOfCycle(dayOffset, cycleLength) ==
    JSRem(JSAdd(JSRem(dayOffset, cycleLength), cycleLength), cycleLength)

\* cycleDay.shifts[i]
ShiftAt(cycleDay, i) ==
    IF i < Len(cycleDay.shifts) THEN cycleDay.shifts[i + 1] ELSE Undefined

\* Shifts without the projection: every group the cycle day defines
AllShifts(self, cycleDay) == cycleDay.shifts

\* the shifts of an entry: three groups for shiftCount 3, else two
Shifts(self, cycleDay) ==
    IF self.shiftCount = 3
    THEN <<ShiftAt(cycleDay, 0), ShiftAt(cycleDay, 1), ShiftAt(cycleDay, 2)>>
    ELSE <<ShiftAt(cycleDay, 0), ShiftAt(cycleDay, 1)>>

\* while (currentDate <= endDate)
LoopCondition(currentDate, endDate) == currentDate <= endDate

\* The loop of getSchedule from currentDate on.  schedules is the array built
\* so far; steps records, per iteration, the values of currentDate, dayOffset
\* and dayOfCycle.  cyclePattern[dayOfCycle] is undefined for an index that is
\* NaN or outside the array, and reading .shifts of it throws a TypeError.
RECURSIVE ScheduleLoop(_, _, _, _, _, _, _)
ScheduleLoop(self, z, currentDate, endDate, cyclePattern, schedules, steps) ==
    IF ~LoopCondition(currentDate, endDate)
    THEN [thrown |-> "", schedules |-> schedules, steps |-> steps,
          currentDate |-> currentDate]
    ELSE LET cycleLength == Len(cyclePattern)
             dayOffset == DayOffset(currentDate, self.baseDate)
             dayOfCycle == DayOfCycle(dayOffset, cycleLength)
             step == [currentDate |-> currentDate,
                      dayOffset |-> dayOffset,
                      dayOfCycle |-> dayOfCycle]
         IN  IF \/ dayOfCycle = NaN \/ dayOfCycle < 0 \/ dayOfCycle >= cycleLength
                \/ cyclePattern[dayOfCycle + 1].off = Null
             THEN [thrown |-> "TypeError",
                   schedules |-> << >>,
                   steps |-> Append(steps, step),
                   currentDate |-> currentDate]
             ELSE LET cycleDay == cyclePattern[dayOfCycle + 1]
                      entry == [date |-> ToLocaleString(currentDate),
                                shifts |-> Shifts(self, cycleDay),
                                off |-> cycleDay.off]
                  IN  ScheduleLoop(self, z, SetDateNextDay(z, currentDate),
                                   endDate, cyclePattern,
                                   Append(schedules, entry),
                                   Append(steps, step))

\* GetSchedule that puts a reversed range in order before it loops
GetScheduleOrdered(self, z, startDate, endDate, cyclePattern) ==
    IF startDate <= endDate
    THEN ScheduleLoop(self, z, startDate, endDate, cyclePattern, << >>, << >>)
    ELSE ScheduleLoop(self, z, endDate, startDate, cyclePattern, << >>, << >>)

\* getSchedule(startDate, endDate, cyclePattern): currentDate starts as a copy
\* of startDate
GetSchedule(self, z, startDate, endDate, cyclePattern) ==
    ScheduleLoop(self, z, startDate, endDate, cyclePattern, << >>, << >>)

\* let currentDate = startDate: the loop variable is the caller's Date object
AliasedDate(startDateObject) == startDateObject

\* let currentDate = new Date(startDate): a Date object of its own, which is
\* the only object that the loop writes to (currentDate.setDate)
CurrentDateObject(startDateObject) == "currentDate"

\* the objects that a getSchedule call can reach, with the values they hold
\* when it is called
ObjectsBefore(self, startDate, endDate, cyclePattern) ==
    [startDate |-> startDate,
     endDate |-> endDate,
     baseDate |-> self.baseDate,
     cyclePattern |-> cyclePattern]

\* ... and when it has returned or thrown: currentDate holds the value that
\* the last setDate gave it
ObjectsAfter(self, startDate, endDate, cyclePattern, result) ==
    (CurrentDateObject("startDate") :> result.currentDate)
        @@ ObjectsBefore(self, startDate, endDate, cyclePattern)

-----------------------------------------------------------------------------
(* window.location and window.history *)

\* the ids of the two views; navButtons has one button for each
Views == {"current-schedule", "q4-schedule"}

\* history.state of an entry that no pushState has made
NullState == "null"

\* the state { start, end } that script.js pushes: it has no view
RangeState == "start,end"

\* a URL is its query parameters; a parameter that is missing reads as falsy,
\* like the empty string
Urls(views, inputs) == [view : views, start : inputs, end : inputs]

\* the session history of a page that has just been loaded from url
NewHistory(url) ==
    [entries |-> <<[state |-> NullState, url |-> url]>>, cursor |-> 1]

\* window.location
Location(h) == h.entries[h.cursor].url

\* history.state
HistoryState(h) == h.entries[h.cursor].state

\* history.pushState(state, "", url): the entries after the current one go
PushState(h, state, url) ==
    [entries |-> Append(SubSeq(h.entries, 1, h.cursor),
                        [state |-> state, url |-> url]),
     cursor |-> h.cursor + 1]

\* history.replaceState(state, "", url)
ReplaceState(h, state, url) ==
    [h EXCEPT !.entries[h.cursor] = [state |-> state, url |-> url]]

\* a back (-1) or forward (+1) step of the browser
Traverse(h, delta) == [h EXCEPT !.cursor = @ + delta]

-----------------------------------------------------------------------------
(* SPARouter *)

\* the URL left as it is
SameUrl(url, viewId) == url

\* url.searchParams.set('view', viewId)
ViewUrl(url, viewId) == [url EXCEPT !.view = viewId]

\* no view hidden, no button unmarked
HideNone(r) == r

\* showView, lines 102-110: hide all views, remove dock-active from all
\* buttons
HideAll(r) ==
    [r EXCEPT !.display = [id \in Views |-> "none"],
              !.dockActive = [id \in Views |-> FALSE]]

\* showView(viewId, pushState): the router and the history it leaves
ShowView(r, h, viewId, pushState) ==
    IF viewId \in Views
    THEN [router |-> [HideAll(r) EXCEPT !.display[viewId] = "block",
                                        !.dockActive[viewId] = TRUE,
                                        !.currentView = viewId],
          history |-> IF pushState
                      THEN PushState(h, viewId, ViewUrl(Location(h), viewId))
                      ELSE h]
    ELSE [router |-> HideAll(r), history |-> h]

\* initRoute()
InitRoute(r, h) ==
    LET viewFromUrl == Location(h).view
    IN  IF viewFromUrl \in Views
        THEN ShowView(r, h, viewFromUrl, FALSE)
        ELSE ShowView(r, h, "current-schedule", FALSE)

\* constructor(): the elements have no inline style yet when initRoute runs
NewRouter(h) ==
    InitRoute([currentView |-> "current-schedule",
               display |-> [id \in Views |-> ""],
               dockActive |-> [id \in Views |-> FALSE]], h).router

\* the popstate listener, for the history the browser has moved in
OnPopState(r, h) ==
    IF HistoryState(h) \in Views
    THEN ShowView(r, h, HistoryState(h), FALSE).router
    ELSE r

-----------------------------------------------------------------------------
(* The state                                                               *)
(*   zone      the time zone of the runtime                                 *)
(*   builder   the schedule builder of the page: its name, shiftCount and   *)
(*             baseDate ("current" and "q4" of spa-app.js, "script" for the *)
(*             ScheduleBuilder of script.js)                                *)
(*   served    the contents of the builder's pattern file                   *)
(*   pc        "constructed" until the builder's init() has run             *)
(*   pending   the generateSchedule calls that have not finished, oldest    *)
(*             first: the dates of each, the state of its pattern fetch,    *)
(*             what fetchSchedulePattern returned and the alerts raised     *)
(*   loader    style.display of the loader element                          *)
(*   rendered  the schedule that the schedule elements show                 *)
(*   label     the text of the date-range label                             *)
(*   router    currentView, style.display of each view, and whether each    *)
(*             dock button has the class dock-active                        *)
(*   history   the entries of the session history (state and URL) and the   *)
(*             position of the current one                                  *)
(*   observed  the getSchedule call of the latest generateSchedule, once    *)
(*             it has run: its arguments, what it returned or threw, and    *)
(*             the values of each iteration of its loop, and the values    *)
(*             that the objects it was given hold afterwards                *)
(*   completed the generateSchedule calls that have finished, in the order  *)
(*             they finished                                                *)
(*   ignored   whether the step just taken was a submission of the date     *)
(*             form with an empty start or end field                        *)

\* what a date field or a query parameter may hold
DateInputs == {EmptyString} \cup {DateString(d) : d \in -MaxDay..MaxDay}

\* what the user types into the date fields of a loaded page
FormInputs == {EmptyString, DateString(0), DateString(1)}

\* the fewest values that have an empty and a set date among them
FewInputs == {EmptyString, DateString(0)}

\* the view parameter of the URL a page is loaded from
ViewParams == Views \cup {"", "other"}

\* the instants at which a page is loaded: noon UTC of day 0
Nows == {HoursPerDay \div 2}

\* the ScheduleBuilder of script.js: always three shifts
ScriptConfig == [name |-> "script", shiftCount |-> 3]

\* a pattern file whose second cycle day is null
BrokenPattern == <<CycleDay(0), NullDay>>

\* a page (builder and router constructed) in one of these zones, with one of
\* these builders and pattern files, loaded from one of these URLs
Constructed(zones, configs, patterns, urls) ==
    /\ zone \in zones
    /\ builder \in {NewBuilder(c, zone) : c \in configs}
    /\ served \in patterns
    /\ history \in {NewHistory(url) : url \in urls}
    /\ router = NewRouter(history)
    /\ pc = "constructed"
    /\ pending = << >>
    /\ loader = ""
    /\ rendered = << >>
    /\ label = << >>
    /\ observed = << >>
    /\ completed = << >>
    /\ ignored = FALSE

\* the generateSchedule calls that have passed line 315
Calls == Len(pending) + Len(completed)

\* no continuation is waiting to run: the continuation of a settled await
\* runs before the next event is handled
Idle == \A i \in 1..Len(pending) : pending[i].fetch = "pending"

\* a call from showLoader() to the await of line 320
NewCall(start, end) ==
    [id |-> Calls + 1, start |-> start, end |-> end,
     fetch |-> "pending", cyclePattern |-> << >>, alerts |-> << >>]

\* generateSchedule(start, end) up to its await
GenerateSchedule(start, end) ==
    IF start = EmptyString \/ end = EmptyString
    THEN UNCHANGED <<pending, loader>>
    ELSE /\ loader' = "flex"
         /\ pending' = Append(pending, NewCall(start, end))

\* getDefaultDateRange(): yesterday and the day a week from now, as the UTC
\* dates of toISOString()
DefaultDateRange(z, today) ==
    [start |-> DateString(ToISODate(SetDateBy(z, today, -DaysBefore))),
     end |-> DateString(ToISODate(SetDateBy(z, today, DaysAfter)))]

\* init(): the fields take the query parameters or the default range
BuilderInit ==
    /\ builder.name # "script"
    /\ pc = "constructed"
    /\ Idle
    /\ Calls < MaxCalls
    /\ \E today \in Nows :
          LET queryParams == Location(history)
              defaultRange == DefaultDateRange(zone, today)
              start == IF queryParams.start # EmptyString
                       THEN queryParams.start ELSE defaultRange.start
              end == IF queryParams.end # EmptyString
                     THEN queryParams.end ELSE defaultRange.end
          IN  GenerateSchedule(start, end)
    /\ pc' = "initialised"
    /\ ignored' = FALSE
    /\ UNCHANGED <<zone, builder, served, rendered, label, router, history,
                   observed, completed>>

\* updateQueryParams(start, end)
UpdateQueryParams(h, start, end) ==
    ReplaceState(h, HistoryState(h),
                 [Location(h) EXCEPT !.start = start, !.end = end])

\* The user can act once ScheduleApp is constructed.  Its constructor runs
\* the init() of the Current builder up to its await; the init() of the Q4
\* builder runs later, when that of the Current builder has finished.
Interactive == pc = "initialised" \/ builder.name = "q4"

\* a submission goes on when the start field alone is set
HasStart(start, end) == start # EmptyString

\* if (start && end)
HasRange(start, end) == start # EmptyString /\ end # EmptyString

\* onFormSubmit(event) with values of the two date fields among inputs
OnFormSubmit(inputs) ==
    /\ builder.name # "script"
    /\ Interactive
    /\ Idle
    /\ \E start \in inputs, end \in inputs :
          /\ HasRange(start, end) => Calls < MaxCalls
          /\ IF HasRange(start, end)
             THEN /\ history' = UpdateQueryParams(history, start, end)
                  /\ GenerateSchedule(start, end)
             ELSE UNCHANGED <<history, pending, loader>>
          /\ ignored' = (start = EmptyString \/ end = EmptyString)
    /\ UNCHANGED <<zone, builder, served, pc, rendered, label, router,
                   observed, completed>>

\* fetchSchedulePattern returns the parsed pattern file to one of the calls
FetchResolved ==
    /\ Idle
    /\ \E i \in 1..Len(pending) :
          pending' = [pending EXCEPT ![i].fetch = "resolved",
                                     ![i].cyclePattern = served]
    /\ ignored' = FALSE
    /\ UNCHANGED <<zone, builder, served, pc, loader, rendered, label, router,
                   history, observed, completed>>

\* fetch or response.json() rejects: fetchSchedulePattern alerts and
\* returns []
FetchFailed ==
    /\ Idle
    /\ \E i \in 1..Len(pending) :
          pending' = [pending EXCEPT
                         ![i].fetch = "rejected",
                         ![i].cyclePattern = << >>,
                         ![i].alerts = <<"Failed to get shift pattern data.">>]
    /\ ignored' = FALSE
    /\ UNCHANGED <<zone, builder, served, pc, loader, rendered, label, router,
                   history, observed, completed>>

\* a call that goes on whether its fetch has settled or not
NotAwaited(call) == TRUE

\* await this.fetchSchedulePattern(): the call goes on once the fetch has
\* settled
Awaited(call) == call.fetch # "pending"

\* a catch block that does nothing
Swallow(thrown) == << >>

\* catch (error) { console.error(..); alert('Failed to generate schedule') }
CatchAlerts(thrown) ==
    IF thrown # "" THEN <<"Failed to generate schedule">> ELSE << >>

\* formatDateRange(start, end): toLocaleDateString names the local calendar
\* day of each date
FormatDateRange(z, start, end) ==
    <<ToLocaleDateString(z, NewDateParse(start)),
      ToLocaleDateString(z, NewDateParse(end))>>

\* pending without its i-th call
Remove(calls, i) == SubSeq(calls, 1, i - 1) \o SubSeq(calls, i + 1, Len(calls))

\* what is kept of a call that has finished
Observation(call, result, startDate, endDate, alerts, rejected) ==
    [start |-> call.start,
     end |-> call.end,
     cyclePattern |-> call.cyclePattern,
     fetch |-> call.fetch,
     thrown |-> result.thrown,
     schedules |-> result.schedules,
     steps |-> result.steps,
     after |-> ObjectsAfter(builder, startDate, endDate,
                            call.cyclePattern, result),
     alerts |-> alerts,
     rejected |-> rejected]

Completion(call, result) ==
    [id |-> call.id, start |-> call.start, end |-> call.end,
     fetch |-> call.fetch, thrown |-> result.thrown]

\* generateSchedule after its await: getSchedule, renderSchedule and the
\* label, or the catch block; finally hideLoader()
Resume ==
    /\ builder.name # "script"
    /\ \E i \in 1..Len(pending) :
          /\ Awaited(pending[i])
          /\ LET call == pending[i]
                 startDate == NewDateParse(call.start)
                 endDate == NewDateParse(call.end)
                 result == GetSchedule(builder, zone, startDate, endDate,
                                       call.cyclePattern)
             IN  /\ IF result.thrown = ""
                    THEN /\ rendered' = <<result.schedules>>
                         /\ label' = <<FormatDateRange(zone, call.start,
                                                       call.end)>>
                    ELSE UNCHANGED <<rendered, label>>
                 /\ loader' = "none"
                 /\ pending' = Remove(pending, i)
                 /\ observed' =
                       <<Observation(call, result, startDate, endDate,
                                     call.alerts \o CatchAlerts(result.thrown),
                                     FALSE)>>
                 /\ completed' = Append(completed, Completion(call, result))
    /\ ignored' = FALSE
    /\ UNCHANGED <<zone, builder, served, pc, router, history>>

\* navigateTo(viewId), from the click on a dock button
NavigateTo ==
    /\ builder.name # "script"
    /\ Interactive
    /\ Idle
    /\ history.cursor < MaxHistory
    /\ \E viewId \in Views :
          LET shown == ShowView(router, history, viewId, TRUE)
          IN  /\ router' = shown.router
              /\ history' = shown.history
    /\ ignored' = FALSE
    /\ UNCHANGED <<zone, builder, served, pc, pending, loader, rendered, label,
                   observed, completed>>

\* the browser's back or forward button, and the popstate event it fires
BackOrForward ==
    /\ builder.name # "script"
    /\ Interactive
    /\ Idle
    /\ \E delta \in {-1, 1} :
          /\ history.cursor + delta \in 1..Len(history.entries)
          /\ history' = Traverse(history, delta)
          /\ router' = OnPopState(router, history')
    /\ ignored' = FALSE
    /\ UNCHANGED <<zone, builder, served, pc, pending, loader, rendered, label,
                   observed, completed>>

-----------------------------------------------------------------------------
(* ScheduleBuilder of script.js *)

\* onFormSubmit(event) up to its await; init() dispatches a submit event
\* once the fields hold the query parameters or the default range
ScriptOnFormSubmit ==
    /\ builder.name = "script"
    /\ Idle
    /\ \E start \in FormInputs, end \in FormInputs :
          /\ HasRange(start, end) => Calls < MaxCalls
          /\ IF HasRange(start, end)
             THEN /\ loader' = "block"
                  /\ history' = PushState(history, RangeState,
                                          [Location(history) EXCEPT
                                              !.start = start, !.end = end])
                  /\ pending' = Append(pending, NewCall(start, end))
             ELSE UNCHANGED <<history, pending, loader>>
          /\ ignored' = (start = EmptyString \/ end = EmptyString)
    /\ pc' = "initialised"
    /\ UNCHANGED <<zone, builder, served, rendered, label, router,
                   observed, completed>>

\* the browser's back or forward button and onPopState() up to its await
ScriptOnPopState ==
    /\ builder.name = "script"
    /\ Idle
    /\ Calls < MaxCalls
    /\ \E delta \in {-1, 1} :
          /\ history.cursor + delta \in 1..Len(history.entries)
          /\ history' = Traverse(history, delta)
          /\ LET params == Location(history')
             IN  IF params.start # EmptyString /\ params.end # EmptyString
                 THEN /\ loader' = "block"
                      /\ pending' = Append(pending,
                                           NewCall(params.start, params.end))
                 ELSE UNCHANGED <<pending, loader>>
    /\ ignored' = FALSE
    /\ UNCHANGED <<zone, builder, served, pc, rendered, label, router,
                   observed, completed>>

\* onFormSubmit and onPopState after the await: no try, no catch, no finally
ScriptResume ==
    /\ builder.name = "script"
    /\ \E i \in 1..Len(pending) :
          /\ Awaited(pending[i])
          /\ LET call == pending[i]
                 startDate == NewDateParse(call.start)
                 endDate == NewDateParse(call.end)
                 result == GetSchedule(builder, zone, startDate, endDate,
                                       call.cyclePattern)
             IN  /\ IF result.thrown = ""
                    THEN /\ rendered' = <<result.schedules>>
                         /\ label' = <<<<call.start, call.end>>>>
                         /\ loader' = "none"
                    ELSE UNCHANGED <<rendered, label, loader>>
                 /\ pending' = Remove(pending, i)
                 /\ observed' =
                       <<Observation(call, result, startDate, endDate,
                                     call.alerts, result.thrown # "")>>
                 /\ completed' = Append(completed, Completion(call, result))
    /\ ignored' = FALSE
    /\ UNCHANGED <<zone, builder, served, pc, router, history>>

-----------------------------------------------------------------------------
(* The load of a page of spa-app.js from a URL that names both dates: the   *)
(* builder's init() generates the schedule of that range.                   *)

Init ==
    Constructed(Zones, Configs, Patterns,
                Urls({""}, DateInputs \ {EmptyString}))

Next == BuilderInit \/ FetchResolved \/ FetchFailed \/ Resume

Spec == Init /\ [][Next]_vars

(* A page in use: loaded from any URL, then the user submits the date form  *)
(* (and, on the page of script.js, goes back and forward) while the pattern *)
(* fetches complete in any order.                                           *)

InitApp ==
    Constructed({z \in Zones : z.name = "UTC"},
                Configs \cup {ScriptConfig},
                {Pattern(0), Pattern(2), BrokenPattern},
                Urls({""}, FewInputs))

NextApp ==
    \/ BuilderInit
    \/ OnFormSubmit(FormInputs)
    \/ FetchResolved
    \/ FetchFailed
    \/ Resume
    \/ ScriptOnFormSubmit
    \/ ScriptOnPopState
    \/ ScriptResume

SpecApp == InitApp /\ [][NextApp]_vars

(* The page of spa-app.js with its router: loaded from a URL with any view  *)
(* parameter and no dates, then the user clicks the dock buttons, goes back *)
(* and forward and submits the date form.                                   *)

InitRouter ==
    Constructed({z \in Zones : z.name = "UTC"},
                {c \in Configs : c.name = "current"},
                {Pattern(2)},
                Urls(ViewParams, {EmptyString}))

NextRouter ==
    \/ NavigateTo
    \/ BackOrForward
    \/ BuilderInit
    \/ OnFormSubmit(FewInputs)
    \/ FetchResolved
    \/ FetchFailed
    \/ Resume

SpecRouter == InitRouter /\ [][NextRouter]_vars

-----------------------------------------------------------------------------
(* What the claims speak of *)

\* a getSchedule call has been observed
Called == observed # << >>

\* the day a date-only string names
DayOf(str) == str[1]

\* the first n shift groups of a cycle day, in pattern order
FirstGroups(cycleDay, n) == SubSeq(cycleDay.shifts, 1, n)

\* the shift count each schedule type is documented with
ConfiguredShiftCount(name) == IF name = "current" THEN 3 ELSE 2

\* the cycle day that lies k days after the anchor
CycleDayAfter(cyclePattern, k) == cyclePattern[(k % Len(cyclePattern)) + 1]

\* the day offsets the quantified claims range over
DayOffsets == -(2 * MaxDay + MaxLen)..(2 * MaxDay + MaxLen)

\* the Date values they range over: every hour of the modelled days
Instants == (-(MaxDay + 1) * HoursPerDay)..((MaxDay + 1) * HoursPerDay)

\* lines 197-198 for the builder of the state
CycleIndex(currentDate, cycleLength) ==
    DayOfCycle(DayOffset(currentDate, builder.baseDate), cycleLength)

-----------------------------------------------------------------------------
(* C1: for a non-empty pattern of length L, the entry emitted for the date  *)
(* lying k calendar days after the anchor date carries the shifts and the   *)
(* off group of pattern[k mod L], in whatever time zone the runtime is.     *)
C1_EntryFollowsAnchor ==
    (Called /\ Len(observed[1].cyclePattern) >= 1 /\ observed[1].thrown = "")
    => \A i \in 1..Len(observed[1].schedules) :
          LET entry == observed[1].schedules[i]
              cycleDay == CycleDayAfter(observed[1].cyclePattern, entry.date)
          IN  /\ entry.off = cycleDay.off
              /\ entry.shifts =
                    FirstGroups(cycleDay, ConfiguredShiftCount(builder.name))

(* C2: for a non-empty pattern and start <= end, getSchedule returns        *)
(* exactly (end - start in days) + 1 entries.                               *)
C2_EntryCount ==
    (/\ Called
     /\ Len(observed[1].cyclePattern) >= 1
     /\ DayOf(observed[1].start) <= DayOf(observed[1].end))
    => /\ observed[1].thrown = ""
       /\ Len(observed[1].schedules) =
             DayOf(observed[1].end) - DayOf(observed[1].start) + 1

(* C3: for every pattern length L >= 1 and every integer dayOffset, the     *)
(* negative ones included, the cycle index lies in 0..L-1, so that the      *)
(* pattern lookup never goes out of bounds.                                 *)
C3_CycleIndexInRange ==
    /\ \A L \in 1..MaxLen : \A dayOffset \in DayOffsets :
          DayOfCycle(dayOffset, L) \in 0..(L - 1)
    /\ (Called /\ Len(observed[1].cyclePattern) >= 1)
       => /\ observed[1].thrown = ""
          /\ \A i \in 1..Len(observed[1].steps) :
                observed[1].steps[i].dayOfCycle
                   \in 0..(Len(observed[1].cyclePattern) - 1)

\* a call has computed the index of a day before the anchor
C3_Witness ==
    /\ Called
    /\ Len(observed[1].cyclePattern) >= 2
    /\ \E i \in 1..Len(observed[1].steps) :
          /\ observed[1].steps[i].dayOffset < 0
          /\ observed[1].steps[i].dayOfCycle > 0

(* C4: with an empty pattern and start <= end the computation fails with    *)
(* an explicit InvalidPatternError, without computing a cycle index.        *)
C4_EmptyPatternError ==
    (/\ Called
     /\ observed[1].cyclePattern = << >>
     /\ DayOf(observed[1].start) <= DayOf(observed[1].end))
    => /\ observed[1].thrown = "InvalidPatternError"
       /\ observed[1].schedules = << >>
       /\ \A i \in 1..Len(observed[1].steps) :
             observed[1].steps[i].dayOfCycle # NaN

(* C5: with start > end getSchedule returns an empty sequence and raises    *)
(* no error, for every pattern: the loop body does not run.                 *)
C5_ReversedRangeEmpty ==
    (Called /\ DayOf(observed[1].start) > DayOf(observed[1].end))
    => /\ observed[1].thrown = ""
       /\ observed[1].schedules = << >>
       /\ observed[1].steps = << >>

\* a reversed range has been computed against an empty pattern
C5_Witness ==
    /\ Called
    /\ DayOf(observed[1].start) > DayOf(observed[1].end)
    /\ observed[1].cyclePattern = << >>
    /\ observed[1].thrown = ""

(* C6: for a non-empty pattern of length L and every date d, the cycle index *)
(* computed for d equals the one computed for d + L days and for d - L days. *)
(* d ranges over the Date values of line 197; L days are L * 24 hours.      *)
C6_Periodicity ==
    Len(served) >= 1
    => \A d \in Instants :
          /\ CycleIndex(d + Len(served) * HoursPerDay, Len(served))
                = CycleIndex(d, Len(served))
          /\ CycleIndex(d - Len(served) * HoursPerDay, Len(served))
                = CycleIndex(d, Len(served))

\* one call has computed the index of two dates that lie L days apart, with
\* another cycle day between them
C6_Witness ==
    /\ Called
    /\ Len(observed[1].cyclePattern) >= 2
    /\ \E i, j \in 1..Len(observed[1].steps) :
          /\ observed[1].steps[j].currentDate =
                observed[1].steps[i].currentDate
                   + Len(observed[1].cyclePattern) * HoursPerDay
          /\ observed[1].steps[j].dayOfCycle = observed[1].steps[i].dayOfCycle
          /\ observed[1].steps[i].currentDate < builder.baseDate
          /\ observed[1].steps[j].currentDate > builder.baseDate

(* C7: for the query date d = A - 1 day, the day before the anchor date A,  *)
(* and a pattern of length L >= 1, the cycle index is L - 1, not negative.  *)
C7_DayBeforeAnchor ==
    (/\ Called
     /\ Len(observed[1].cyclePattern) >= 1
     /\ observed[1].start = DateString(-1)
     /\ observed[1].steps # << >>)
    => observed[1].steps[1].dayOfCycle = Len(observed[1].cyclePattern) - 1

(* C8: with the configured shift count N, 3 for the Current schedule and 2  *)
(* for Q4, every emitted entry holds exactly the first N shift groups of    *)
(* its cycle day, in pattern order and unchanged; N is the same for every   *)
(* day of one call.                                                         *)
C8_ShiftProjection ==
    (Called /\ observed[1].thrown = "")
    => \A i \in 1..Len(observed[1].schedules) :
          LET cycleDay ==
                 observed[1].cyclePattern[observed[1].steps[i].dayOfCycle + 1]
              N == ConfiguredShiftCount(builder.name)
          IN  /\ Len(observed[1].schedules[i].shifts) = N
              /\ observed[1].schedules[i].shifts = FirstGroups(cycleDay, N)

\* the Q4 builder has emitted entries from cycle days that define more groups
\* than it shows
C8_Witness ==
    /\ Called
    /\ builder.name = "q4"
    /\ Len(observed[1].schedules) >= 2
    /\ \A i \in 1..Len(observed[1].schedules) :
          Len(observed[1].cyclePattern[observed[1].steps[i].dayOfCycle + 1].shifts)
             > Len(observed[1].schedules[i].shifts)

(* C9: the returned sequence is in strictly ascending date order and holds  *)
(* exactly one entry for each calendar day of [start, end].                 *)
C9_OneEntryPerDay ==
    (Called /\ observed[1].thrown = "")
    => /\ \A i \in 1..(Len(observed[1].schedules) - 1) :
             observed[1].schedules[i].date < observed[1].schedules[i + 1].date
       /\ {observed[1].schedules[i].date : i \in 1..Len(observed[1].schedules)}
             = DayOf(observed[1].start)..DayOf(observed[1].end)

(* C10: two getSchedule calls with identical start, end, pattern and anchor  *)
(* arguments return identical sequences: the result depends on nothing      *)
(* else, not on the current time, earlier calls or other state of the       *)
(* environment.  The environment of the model is the runtime's time zone:   *)
(* the call observed, made again with the same Date values and the same     *)
(* builder in any other zone, returns what it returned.                     *)
C10_SameArgumentsSameResult ==
    Called
    => \A z \in Zones :
          LET again == GetSchedule(builder, z,
                                   NewDateParse(observed[1].start),
                                   NewDateParse(observed[1].end),
                                   observed[1].cyclePattern)
          IN  /\ again.thrown = observed[1].thrown
              /\ again.schedules = observed[1].schedules

(* C11: getSchedule leaves its inputs unchanged: after the call the start  *)
(* date, the end date, the anchor date and every cycle day of the pattern   *)
(* hold the values they held before it                                      *)
C11_InputsUnchanged ==
    Called =>
        LET o == observed[1]
        IN  /\ o.after["startDate"] = NewDateParse(o.start)
            /\ o.after["endDate"] = NewDateParse(o.end)
            /\ o.after["baseDate"] = builder.baseDate
            /\ o.after["cyclePattern"] = o.cyclePattern
            /\ \A i \in 1..Len(o.cyclePattern) :
                  o.after["cyclePattern"][i] = o.cyclePattern[i]

\* a call whose loop has moved currentDate past the start date at least twice
C11_Witness ==
    /\ Called
    /\ observed[1].thrown = ""
    /\ Len(observed[1].schedules) >= 2
    /\ observed[1].after["currentDate"] > NewDateParse(observed[1].end)

(* C20: in every sequence returned by getSchedule for a non-empty pattern   *)
(* of length L, the cycle index of each entry after the first equals        *)
(* (cycle index of the previous entry + 1) mod L                            *)
C20_ConsecutiveCycleIndex ==
    (Called /\ observed[1].thrown = "" /\ observed[1].cyclePattern # << >>)
    => LET o == observed[1]
           L == Len(o.cyclePattern)
       IN  \A i \in 2..Len(o.steps) :
              o.steps[i].dayOfCycle = (o.steps[i - 1].dayOfCycle + 1) % L

-----------------------------------------------------------------------------
(* The page in use *)

\* the call that has just finished, in the step that appends it to completed
Finished == completed'[Len(completed')]

\* the call that was made last
Latest == CHOOSE c \in {completed[i] : i \in 1..Len(completed)} : c.id = Calls

\* the view that a page loaded from this URL shows (initRoute)
ViewOf(url) == IF url.view \in Views THEN url.view ELSE "current-schedule"

\* the views that are displayed and the buttons that are marked
Displayed == {id \in Views : router.display[id] = "block"}
DockActive == {id \in Views : router.dockActive[id]}

(* C12: when getSchedule fails (empty pattern, or a failure met part-way    *)
(* through the range), no entries reach the caller, the step leaves the     *)
(* rendered schedule and the label as they were, and the error is reported: *)
(* by the alert of the catch block, or by the rejection of the handler's    *)
(* promise where nothing catches it.                                        *)
C12_FailureRendersNothing ==
    [][(Len(completed') > Len(completed) /\ Finished.thrown # "")
       => /\ observed'[1].schedules = << >>
          /\ rendered' = rendered
          /\ label' = label
          /\ \/ \E i \in 1..Len(observed'[1].alerts) :
                   observed'[1].alerts[i] = "Failed to generate schedule"
             \/ observed'[1].rejected]_vars

\* a schedule is on screen, and the next generation has failed at the second
\* day of its range
C12_Witness ==
    /\ Len(completed) = 2
    /\ completed[1].thrown = ""
    /\ completed[2].thrown # ""
    /\ rendered # << >>
    /\ Len(observed[1].steps) = 2

(* C13: in every schedule generation the pattern fetch has completed        *)
(* (resolved or failed) before getSchedule starts, and the step in which    *)
(* getSchedule runs starts no fetch: it only takes its call out of pending. *)
C13_FetchBeforeGetSchedule ==
    [][Len(completed') > Len(completed)
       => /\ Finished.fetch \in {"resolved", "rejected"}
          /\ Len(pending') = Len(pending) - 1
          /\ \A i \in 1..Len(pending') :
                \E j \in 1..Len(pending) : pending'[i] = pending[j]]_vars

\* a generation has run getSchedule while the fetch of another was awaited
C13_Witness ==
    /\ \E i \in 1..Len(completed) : completed[i].fetch = "resolved"
    /\ \E i \in 1..Len(pending) : pending[i].fetch = "pending"

(* C16: after every schedule generation started with both dates set, the    *)
(* loader ends hidden: once no generation is under way, its display is none *)
C16_LoaderEndsHidden ==
    (completed # << >> /\ pending = << >>) => loader = "none"

(* C17: once the generateSchedule calls of a builder of spa-app.js have all *)
(* finished with their patterns fetched, the schedule and the date-range    *)
(* label on screen are those of the range that was requested last           *)
C17_LatestRangeShown ==
    (/\ builder.name # "script"
     /\ pending = << >>
     /\ Len(completed) >= 2
     /\ \A i \in 1..Len(completed) :
           completed[i].fetch = "resolved" /\ completed[i].thrown = "")
    => /\ label = <<FormatDateRange(zone, Latest.start, Latest.end)>>
       /\ rendered = <<GetSchedule(builder, zone, NewDateParse(Latest.start),
                                   NewDateParse(Latest.end), served).schedules>>

(* C18: the loader of a builder of spa-app.js is shown in every state in    *)
(* which one of its generateSchedule calls is still awaiting the pattern    *)
(* fetch                                                                    *)
C18_LoaderShownWhileAwaiting ==
    (/\ builder.name # "script"
     /\ \E i \in 1..Len(pending) : pending[i].fetch = "pending")
    => loader = "flex"

(* C14: after any dock navigations and a back or forward step, the view     *)
(* displayed is the view of the history entry the browser is on, the entry  *)
(* the page was loaded with included                                        *)
C14_BackForwardShowsEntry ==
    Displayed = {ViewOf(Location(history))}

(* C15: once a dock navigation has made the current history entry, also     *)
(* after date-form submissions, the view parameter of the URL equals the    *)
(* router's currentView                                                     *)
C15_UrlFollowsView ==
    HistoryState(history) \in Views
    => Location(history).view = router.currentView

\* a navigation to the Q4 view, then a form submission that has rewritten
\* the URL
C15_Witness ==
    /\ HistoryState(history) = "q4-schedule"
    /\ history.cursor >= 2
    /\ Location(history).start # EmptyString

(* C19: after router initialisation and after any navigateTo and popstate   *)
(* events, exactly one view is displayed and exactly one dock button is     *)
(* marked active, and both are the ones that currentView names              *)
C19_OneViewOneButton ==
    /\ Displayed = {router.currentView}
    /\ DockActive = {router.currentView}

\* two navigations and a back step whose popstate event has shown a view
C19_Witness ==
    /\ history.cursor < Len(history.entries)
    /\ HistoryState(history) \in Views
    /\ router.currentView = HistoryState(history)

(* C21: a form submission in which the start or the end date is empty, and  *)
(* so the generateSchedule call it would make, changes nothing: the query   *)
(* parameters of the URL, the rendered schedule, the date-range label and   *)
(* the loader stay as they were, and no pattern fetch is started            *)
C21_EmptyDateChangesNothing ==
    [][(ignored' /\ ~ignored)
       => /\ Location(history') = Location(history)
          /\ history' = history
          /\ rendered' = rendered
          /\ label' = label
          /\ loader' = loader
          /\ pending' = pending]_vars

\* the form was submitted with an empty date while a schedule was on screen,
\* the URL named a range and another generation awaited its fetch
C21_Witness ==
    /\ ignored
    /\ builder.name # "script"
    /\ rendered # << >>
    /\ Location(history).start # EmptyString
    /\ \E i \in 1..Len(pending) : pending[i].fetch = "pending"

====
